---------------------------- MODULE Spec2Model ----------------------------
(***************************************************************************)
(* Shared-stack maintenance (src/shared_stack.py): the product/tag         *)
(* trackers, the scrape of the distribution server's tag manifests, the    *)
(* StackManager operations on the local EUPS stack and the reconciliation  *)
(* loop of main().                                                         *)
(*                                                                         *)
(* A tracker (ProductTracker with its Products) is the record              *)
(*   [vers : set of <<product, version>>,  tags : set of <<p, v, tag>>]    *)
(* a product is a key of _products exactly when it has a version in vers.  *)
(* The local stack on disk (the EUPS database) has the same shape.         *)
(***************************************************************************)
EXTENDS Naturals, Sequences, FiniteSets, Bags, TLC

\* ------------------------------------------------------------- bounds
\* Lines over all manifests of one server content (SpecLoad).
MaxLines == 3
\* Runs of main() against the same stack directory (Spec).
MaxRuns == 2
\* Calls made on one ProductTracker (SpecTracker).
MaxCalls == 3
\* Lines of one "list --raw" output (SpecRefresh).
MaxListed == 2

\* ------------------------------------------------------ bounded domains
ProductNames == {"p", "q"}
Versions == {"v1", "v2"}
\* Tag names matching VERSION_GLOB, and one that does not.
MatchingTags == {"w_10", "w_12"}
OtherTags == {"x_01"}
Stems == MatchingTags \cup OtherTags
Flavor == "Linux64"
Dates == {1, 2}
\* A response without a usable last-modified header.
NoDate == 0
None == "None"

\* Top-level products to install into the stack.
PRODUCTS == <<"p">>
\* The CONFIGURATION block edited to name two top-level products.
TwoProducts == <<"p", "q">>

\* re.match(VERSION_GLOB, el.text): a property of the start of the name.
GlobMatches(stem) == stem \in MatchingTags

\* ------------------------------------------- Product / ProductTracker
EmptyTracker == [vers |-> {}, tags |-> {}]

\* "if tag:" is false for None and for the empty string.
Truthy(tag) == tag \notin {None, ""}

\* insert with an add_version that starts the version's tag set afresh.
insert_ResetVersion(tr, product, version, tag) ==
    [vers |-> tr.vers \cup {<<product, version>>},
     tags |-> {f \in tr.tags : <<f[1], f[2]>> # <<product, version>>}
              \cup (IF Truthy(tag) THEN {<<product, version, tag>>} ELSE {})]

insert(tr, product, version, tag) ==
    [vers |-> tr.vers \cup {<<product, version>>},
     tags |-> IF Truthy(tag) THEN tr.tags \cup {<<product, version, tag>>}
              ELSE tr.tags]

KnownProduct(tr, product_name) == \E pv \in tr.vers : pv[1] = product_name

\* The tags of every product, whatever the name asked for.
tags_for_product_AnyProduct(tr, product_name) == {f[3] : f \in tr.tags}

tags_for_product(tr, product_name) ==
    IF KnownProduct(tr, product_name)
    THEN {f[3] : f \in {g \in tr.tags : g[1] = product_name}}
    ELSE {}

\* Product.versions(tag) takes None for "no filter": every version.
products_for_tag(tr, tag) ==
    IF tag = None THEN tr.vers
    ELSE {<<f[1], f[2]>> : f \in {g \in tr.tags : g[3] = tag}}

\* current(product_name): the outcomes the call can have.  versions(
\* "current") is a list in the order of a dict, and [0] of the empty list
\* raises.
current(tr, product_name) ==
    IF KnownProduct(tr, product_name)
    THEN LET tagged == {f[2] : f \in {g \in tr.tags :
                                        g[1] = product_name /\ g[3] = "current"}}
         IN  IF tagged = {} THEN {"IndexError"} ELSE tagged
    ELSE {None}

\* has_version that looks for the version under any product.
has_version_OtherProduct(tr, product_name, version) ==
    \E pv \in tr.vers : pv[2] = version

\* has_version that looks at the product alone.
has_version_AnyVersion(tr, product_name, version) ==
    KnownProduct(tr, product_name)

has_version(tr, product_name, version) ==
    KnownProduct(tr, product_name) /\ <<product_name, version>> \in tr.vers

\* --------------------------------------------- RepositoryManager.__init__
\* A manifest line is the sequence of its whitespace-separated fields; a
\* blank line is <<>>.  A comment line starts with a field that starts
\* with "#".
CommentFields == {"#", "#c"}
HeaderOf(stem) == <<"EUPS", "distribution", stem, "version", "list">>

\* "EUPS distribution %s version list" % tag in line
IsHeader(line, stem) ==
    \E i \in 1..Len(line) :
        /\ i + 4 <= Len(line)
        /\ SubSeq(line, i, i + 4) = HeaderOf(stem)

\* text.strip().split('\n'): blank lines at both ends go, and the empty
\* text still splits into one (empty) line.
RECURSIVE StripLeft(_)
StripLeft(body) ==
    IF body # <<>> /\ Head(body) = <<>> THEN StripLeft(Tail(body)) ELSE body

RECURSIVE StripRight(_)
StripRight(body) ==
    IF body # <<>> /\ body[Len(body)] = <<>>
    THEN StripRight(SubSeq(body, 1, Len(body) - 1))
    ELSE body

StripSplit(body) ==
    LET s == StripRight(StripLeft(body))
    IN  IF s = <<>> THEN << <<>> >> ELSE s

\* The loop over the lines of one manifest.  st is the load so far:
\* [tracker, tag_dates, raised, inserts, at]; inserts is the sequence of
\* insert() calls made.
RECURSIVE ParseLines(_, _, _)
ParseLines(st, lines, stem) ==
    IF lines = <<>> THEN st
    ELSE LET line == Head(lines)
         IN  IF IsHeader(line, stem) THEN ParseLines(st, Tail(lines), stem)
             ELSE IF line = <<>> THEN [st EXCEPT !.raised = "IndexError"]
             ELSE IF line[1] \in CommentFields
                  THEN ParseLines(st, Tail(lines), stem)
             ELSE IF Len(line) # 3 THEN [st EXCEPT !.raised = "ValueError"]
             ELSE ParseLines(
                    [st EXCEPT !.tracker = insert(@, line[1], line[3], stem),
                               !.inserts = Append(@, <<line[1], line[3], stem>>)],
                    Tail(lines), stem)

\* One pass of the loop over the anchors of the tags page.
LoadTag(st, el, resp, reachable) ==
    IF ~(el.suffix = ".list" /\ GlobMatches(el.stem)) THEN st
    ELSE IF ~reachable THEN [st EXCEPT !.raised = "URLError"]
    ELSE IF resp.last_modified = NoDate
         THEN [st EXCEPT !.raised = "TypeError"]
    ELSE ParseLines(
           [st EXCEPT !.tag_dates =
                [t \in DOMAIN @ \cup {el.stem} |->
                    IF t = el.stem THEN resp.last_modified ELSE @[t]]],
           StripSplit(resp.body), el.stem)

RECURSIVE LoadTags(_, _, _, _, _)
LoadTags(st, page, i, srv, down) ==
    IF i > Len(page) \/ st.raised # None THEN st
    ELSE LoadTags(
           LoadTag([st EXCEPT !.at = i], page[i], srv[page[i].stem],
                   page[i].stem \notin down),
           page, i + 1, srv, down)

\* The object before the tags page is read.
NoRepository ==
    [tracker |-> EmptyTracker, tag_dates |-> << >>, raised |-> None,
     inserts |-> << >>, at |-> 0]

\* RepositoryManager(pattern=VERSION_GLOB) against the server content
\* (page, srv) with the manifests of the tags in down unreachable.  When
\* raised is not None the constructor raised there, at anchor number
\* "at" of the page, and the other fields are the object as it was left.
\* page_ok: urlopen of the tags page itself returned; when it raises,
\* nothing has been fetched (at is 0).
RepositoryManager(page_ok, page, srv, down) ==
    IF page_ok THEN LoadTags(NoRepository, page, 1, srv, down)
    ELSE [NoRepository EXCEPT !.raised = "URLError"]

\* --------------------------------------------------- the server content
\* The rows of a manifest as the distribution server means them.
RowPairs(body) ==
    {<<body[i][1], body[i][3]>> :
        i \in {j \in 1..Len(body) :
                 /\ Len(body[j]) = 3
                 /\ body[j][1] \notin CommentFields}}

Row(product, version) == <<product, Flavor, version>>

\* ------------------------------------------------ the local EUPS stack
\* `tag in ("setup")` tests a string, not a tuple: it holds of every
\* substring of "setup".
SetupSubstrings ==
    {"", "s", "e", "t", "u", "p", "se", "et", "tu", "up", "set", "etu",
     "tup", "setu", "etup", "setup"}

\* Tags every EUPS stack knows without a declaration in startup.py.
BuiltinTags == {"current"}

\* "eups tags": the tag names the stack knows.
EupsTags(global) == global \cup BuiltinTags

\* "eups list --raw": one line product|version|tags per declared version;
\* a version set up in the calling environment shows the tag "setup".
ListRaw(dsk, setup) ==
    {[product |-> pv[1], version |-> pv[2],
      tags |-> {f[3] : f \in {g \in dsk.tags : g[1] = pv[1] /\ g[2] = pv[2]}}
               \cup (IF pv \in setup THEN {"setup"} ELSE {})] :
        pv \in dsk.vers}

\* "eups declare -t tag product version": a tag names one version of a
\* product, so the tag leaves the version that carried it.
EupsDeclare(dsk, product, version, tag) ==
    [vers |-> dsk.vers,
     tags |-> (dsk.tags \ {<<product, w, tag>> : w \in Versions})
              \cup {<<product, version, tag>>}]

\* The command exits zero only for a declared version and a known tag.
DeclareAccepted(dsk, global, product, version, tag) ==
    /\ <<product, version>> \in dsk.vers
    /\ tag \in EupsTags(global)

\* "eups distrib install --no-server-tags product -t tag": the stacks a
\* successful install can leave: the product at a version the tag lists,
\* with any of the other products of the tag (its dependencies); no tag
\* is assigned.
EupsInstalls(dsk, body, product) ==
    LET rows == RowPairs(body)
        mine == {pv \in rows : pv[1] = product}
    IN  {[vers |-> dsk.vers \cup {pv} \cup deps, tags |-> dsk.tags] :
            pv \in mine, deps \in SUBSET (rows \ mine)}

\* "eups distrib install --no-server-tags product version": that version
\* of the product, untagged.
EupsInstallVersion(dsk, product, version) ==
    [vers |-> dsk.vers \cup {<<product, version>>}, tags |-> dsk.tags]

\* What "distrib install lsst" brings: the product lsst and any of its
\* dependencies, one of them a product the tag manifests list as well.
LsstVersion == "v1"
LsstDeps == {<<"q", "v1">>}

\* "eups distrib install --no-server-tags lsst" bringing the dependencies
\* deps.
EupsInstallLsst(dsk, deps) ==
    [vers |-> dsk.vers \cup {<<"lsst", LsstVersion>>} \cup deps,
     tags |-> dsk.tags]

\* ------------------------------------------------------- StackManager
\* tags.split(":") of one list line.
SplitTags(tags) == IF tags = {} THEN {""} ELSE tags

\* The body of the loop of _refresh_products for one line.
RefreshLine(tr, line) ==
    LET kept == {t \in SplitTags(line.tags) : t \notin SetupSubstrings}
        t0 == IF line.tags = {} THEN insert(tr, line.product, line.version, None)
              ELSE tr
    IN  [vers |-> t0.vers \cup {<<line.product, line.version>> : t \in kept},
         tags |-> t0.tags \cup
                  {<<line.product, line.version, t>> :
                      t \in {k \in kept : Truthy(k)}}]

RECURSIVE RefreshLines(_, _)
RefreshLines(tr, lines) ==
    IF lines = {} THEN tr
    ELSE LET line == CHOOSE l \in lines : TRUE
         IN  RefreshLines(RefreshLine(tr, line), lines \ {line})

\* _refresh_products over the output of "list --raw".
refresh_products(lines) == RefreshLines(EmptyTracker, lines)

\* distrib_install(product_name, tag=tag).  run is what the two commands
\* did: [install_ok, stack (the stack the install left), list_ok].
distrib_install(tr, dsk, setup, run) ==
    IF ~run.install_ok
    THEN [tracker |-> tr, disk |-> dsk, result |-> "cmd_failed"]
    ELSE IF ~run.list_ok
    THEN [tracker |-> EmptyTracker, disk |-> run.stack, result |-> "list_failed"]
    ELSE [tracker |-> refresh_products(ListRaw(run.stack, setup)),
          disk |-> run.stack, result |-> "ok"]

\* apply_tag that records the tag before the command is run.
apply_tag_InsertFirst(tr, dsk, global, product_name, version, tagname, exit_ok) ==
    IF has_version(tr, product_name, version)
    THEN IF exit_ok /\ DeclareAccepted(dsk, global, product_name, version, tagname)
         THEN [tracker |-> insert(tr, product_name, version, tagname),
               disk |-> EupsDeclare(dsk, product_name, version, tagname),
               result |-> "ok"]
         ELSE [tracker |-> insert(tr, product_name, version, tagname),
               disk |-> dsk, result |-> "cmd_failed"]
    ELSE [tracker |-> tr, disk |-> dsk, result |-> "skipped"]

\* apply_tag(product_name, version, tagname); exit_ok: the declare
\* command, if run, is not made to fail from outside.
apply_tag(tr, dsk, global, product_name, version, tagname, exit_ok) ==
    IF has_version(tr, product_name, version)
    THEN IF exit_ok /\ DeclareAccepted(dsk, global, product_name, version, tagname)
         THEN [tracker |-> insert(tr, product_name, version, tagname),
               disk |-> EupsDeclare(dsk, product_name, version, tagname),
               result |-> "ok"]
         ELSE [tracker |-> tr, disk |-> dsk, result |-> "cmd_failed"]
    ELSE [tracker |-> tr, disk |-> dsk, result |-> "skipped"]

\* add_global_tag(tagname): a line appended to site/startup.py.
add_global_tag(global, tagname) == global \cup {tagname}

\* ------------------------------------------------------------- state
VARIABLES
    listing,        \* server: the anchors of the tags page, in page order
    served,         \* server: stem -> [last_modified, body] of its manifest
    net,            \* the manifests unreachable during the last load
    disk,           \* the local stack as EUPS has it
    globalTags,     \* the globalTags lines of site/startup.py
    setupEnv,       \* the versions set up in the calling environment
    products,       \* the products of the CONFIGURATION block
    root,           \* ROOT: "absent", "no_eups" (made, EUPS not built), "ready"
    pc,             \* where main() is
    runs,           \* runs of main() started so far
    rm,             \* the RepositoryManager of this run
    sm_tracker,     \* StackManager._product_tracker
    prod,           \* index into products of the product considered
    server_tags, installed_tags, candidate_tags,
    remaining,      \* candidate tags the for loop has yet to visit
    tag,            \* the candidate tag of the loop
    todo,           \* pairs of products_for_tag the inner loop has yet to visit
    available_tags, current_tag,
    calls,          \* the StackManager calls of this run, a bag
    last,           \* the latest of them
    chosen,         \* pass -> the current tag chosen in it, and among which
    lastRun,        \* how the latest run ended, "none" once the server changed
    prevRun         \* lastRun as it was when this run started

vars == <<listing, served, net, disk, globalTags, setupEnv, products, root,
          pc, runs, rm,
          sm_tracker, prod, server_tags, installed_tags, candidate_tags,
          remaining, tag, todo, available_tags, current_tag, calls, last,
          chosen, lastRun, prevRun>>

server == <<listing, served>>
environ == <<setupEnv, products, root>>
locals == <<prod, server_tags, installed_tags, candidate_tags, remaining, tag,
            todo, available_tags, current_tag>>
history == <<calls, last, chosen>>

Anchor(stem, suffix) == [stem |-> stem, suffix |-> suffix]
Unpublished == [last_modified |-> NoDate, body |-> << >>]

\* One call of a StackManager method, made while products[pass] was
\* considered (pass 0: before the loop): known is whether the tag was a
\* tag name the stack knew when the call was made.
Entry(op, product, version, t, result) ==
    [op |-> op, product |-> product, version |-> version, tag |-> t,
     result |-> result, known |-> t \in EupsTags(globalTags), pass |-> prod]

NoCall ==
    [op |-> None, product |-> None, version |-> None, tag |-> None,
     result |-> None, known |-> FALSE, pass |-> 0]

\* The call e is made.
Record(e) ==
    /\ calls' = calls (+) SetToBag({e})
    /\ last' = e
    /\ UNCHANGED chosen

\* The environments a run can find itself in.
SetupChoices == {{}, {<<"p", "v1">>}}

InitLocals ==
    /\ prod = 0
    /\ server_tags = {} /\ installed_tags = {} /\ candidate_tags = {}
    /\ remaining = {} /\ tag = None /\ todo = {}
    /\ available_tags = {} /\ current_tag = None

\* A site without the stack directory, and a server that has published
\* nothing that matches.
Init ==
    /\ listing = << >>
    /\ served = [s \in Stems |-> Unpublished]
    /\ net = {}
    /\ disk = EmptyTracker
    /\ globalTags = {}
    /\ setupEnv \in SetupChoices
    /\ products = PRODUCTS
    /\ root = "absent"
    /\ pc = "idle"
    /\ runs = 0
    /\ rm = NoRepository
    /\ sm_tracker = EmptyTracker
    /\ InitLocals
    /\ calls = EmptyBag
    /\ last = NoCall
    /\ chosen = << >>
    /\ lastRun = "none"
    /\ prevRun = "none"

\* The lines a manifest of the tag is made of: a blank line, a comment,
\* the header, a row of two fields, rows of three.
ManifestLines(stem) ==
    {<< >>, <<"#", "note">>, HeaderOf(stem), <<"p", "v1">>,
     Row("p", "v1"), Row("p", "v2"), Row("q", "v1")}

Bodies(stem, n) == [1..n -> ManifestLines(stem)]

\* A tags page with a tag the pattern rejects and a file that is no list.
LoadPage ==
    <<Anchor("w_10", ".list"), Anchor("x_01", ".list"),
      Anchor("w_12", ".html"), Anchor("w_12", ".list")>>

\* main() about to build its RepositoryManager against any server
\* content of at most MaxLines manifest lines.
InitLoad ==
    /\ listing = LoadPage
    /\ \E n1 \in 0..MaxLines :
       \E n2 \in 0..(MaxLines - n1) :
       \E b1 \in Bodies("w_10", n1), b2 \in Bodies("w_12", n2) :
       \E d1 \in Dates \cup {NoDate}, d2 \in Dates \cup {NoDate} :
          served = [s \in Stems |->
                       IF s = "w_10" THEN [last_modified |-> d1, body |-> b1]
                       ELSE IF s = "w_12"
                            THEN [last_modified |-> d2, body |-> b2]
                       ELSE [last_modified |-> 1, body |-> << <<"p", "v1">> >>]]
    /\ net = {}
    /\ disk = EmptyTracker
    /\ globalTags = {}
    /\ setupEnv = {}
    /\ products = PRODUCTS
    /\ root = "ready"
    /\ pc = "repo"
    /\ runs = 1
    /\ rm = NoRepository
    /\ sm_tracker = EmptyTracker
    /\ InitLocals
    /\ calls = EmptyBag
    /\ last = NoCall
    /\ chosen = << >>
    /\ lastRun = "none"
    /\ prevRun = "none"

\* ---------------------------------------------------- create_stack
MINICONDA2_VERSION == "3.19.0.lsst4"

\* The commands of create_stack that can exit non-zero, in their order:
\* building EUPS, the list of the constructor, the two commands of
\* distrib_install("miniconda2"), the declare of apply_tag, the conda
\* commands and chmod ("conda": chmod runs also when conda() finds no
\* current miniconda2 and returns), the two commands of
\* distrib_install("lsst").
CreateCommands ==
    {"bootstrap", "list", "install_miniconda2", "list_miniconda2",
     "declare", "conda", "install_lsst", "list_lsst"}

\* StackManager.create_stack(ROOT) on a site without the directory, the
\* command fails (None: no command) exiting non-zero and the install of
\* lsst bringing deps: [root, tracker, disk, made (the calls made, in
\* order), ok (it returned)].
create_stack(setup, global, fails, deps) ==
    LET out(r, tr, dsk, made, ok) ==
            [root |-> r, tracker |-> tr, disk |-> dsk, made |-> made,
             ok |-> ok]
        conda(c, result) == Entry("conda", "miniconda2", c, None, result)
    IN
    IF fails = "bootstrap"
    THEN out("no_eups", EmptyTracker, EmptyTracker,
             <<Entry("bootstrap", None, None, None, "cmd_failed")>>, FALSE)
    ELSE IF fails = "list"
    THEN out("ready", EmptyTracker, EmptyTracker,
             <<Entry("list", None, None, None, "cmd_failed")>>, FALSE)
    ELSE
    LET t0 == refresh_products(ListRaw(EmptyTracker, setup))
        c0 == <<Entry("list", None, None, None, "ok")>>
        i1 == distrib_install(t0, EmptyTracker, setup,
                [install_ok |-> fails # "install_miniconda2",
                 stack |-> EupsInstallVersion(EmptyTracker, "miniconda2",
                                              MINICONDA2_VERSION),
                 list_ok |-> fails # "list_miniconda2"])
        c1 == Append(c0, Entry("distrib_install", "miniconda2",
                               MINICONDA2_VERSION, None, i1.result))
    IN
    IF i1.result # "ok" THEN out("ready", i1.tracker, i1.disk, c1, FALSE)
    ELSE
    LET a1 == apply_tag(i1.tracker, i1.disk, global, "miniconda2",
                        MINICONDA2_VERSION, "current", fails # "declare")
        c2 == Append(c1, Entry("apply_tag", "miniconda2", MINICONDA2_VERSION,
                               "current", a1.result))
        cur == current(a1.tracker, "miniconda2")
    IN
    IF a1.result = "cmd_failed"
    THEN out("ready", a1.tracker, a1.disk, c2, FALSE)
    ELSE IF cur = {"IndexError"}
    THEN out("ready", a1.tracker, a1.disk,
             Append(c2, conda(None, "IndexError")), FALSE)
    ELSE IF fails = "conda"
    THEN out("ready", a1.tracker, a1.disk,
             Append(c2, conda(IF cur = {None} THEN None
                              ELSE MINICONDA2_VERSION, "cmd_failed")),
             FALSE)
    ELSE
    LET c3 == IF cur = {None} THEN Append(c2, conda(None, "skipped"))
              ELSE Append(c2, conda(MINICONDA2_VERSION, "ok"))
        i2 == distrib_install(a1.tracker, a1.disk, setup,
                [install_ok |-> fails # "install_lsst",
                 stack |-> EupsInstallLsst(a1.disk, deps),
                 list_ok |-> fails # "list_lsst"])
        c4 == Append(c3, Entry("distrib_install", "lsst", None, None,
                               i2.result))
    IN  out("ready", i2.tracker, i2.disk, c4, i2.result = "ok")

\* The calls of a sequence as a bag.
BagOf(made) ==
    [e \in {made[i] : i \in DOMAIN made} |->
        Cardinality({i \in DOMAIN made : made[i] = e})]

\* ----------------------------------------------------- the environment
\* The order in which the matching tags come out.
Releases == <<"w_10", "w_12">>

\* The server publishes the manifest of one more tag.
Publish ==
    /\ pc = "idle"
    /\ Len(listing) < Len(Releases)
    /\ \E stem \in {Releases[Len(listing) + 1]},
          date \in Dates,
          vp \in Versions \cup {None}, vq \in Versions \cup {None} :
        /\ vp # None \/ vq # None
        /\ listing' = Append(listing, Anchor(stem, ".list"))
        /\ served' = [served EXCEPT ![stem] =
              [last_modified |-> date,
               body |-> <<HeaderOf(stem)>>
                        \o (IF vp = None THEN << >> ELSE <<Row("p", vp)>>)
                        \o (IF vq = None THEN << >> ELSE <<Row("q", vq)>>)]]
    /\ lastRun' = "none"
    /\ UNCHANGED <<net, disk, globalTags, environ, pc, runs, rm, sm_tracker,
                   locals, history, prevRun>>

\* ---------------------------------------------------------------- main
\* if not os.path.exists(ROOT): sm = StackManager.create_stack(ROOT, ...)
Main_create_stack ==
    /\ pc = "idle"
    /\ runs < MaxRuns
    /\ root = "absent"
    /\ runs' = runs + 1
    /\ prevRun' = lastRun
    /\ lastRun' = "none"
    /\ rm' = NoRepository
    /\ net' = {}
    /\ UNCHANGED locals
    /\ \E fails \in CreateCommands \cup {None}, deps \in SUBSET LsstDeps :
        LET r == create_stack(setupEnv, globalTags, fails, deps)
        IN  /\ root' = r.root
            /\ disk' = r.disk
            /\ sm_tracker' = r.tracker
            /\ calls' = calls (+) BagOf(r.made)
            /\ last' = r.made[Len(r.made)]
            /\ pc' = IF r.ok THEN "repo" ELSE "crashed"
    /\ UNCHANGED <<server, globalTags, setupEnv, products, chosen>>

\* else: sm = StackManager(ROOT, userdata=userdata)
Main_StackManager ==
    /\ pc = "idle"
    /\ runs < MaxRuns
    /\ root # "absent"
    /\ runs' = runs + 1
    /\ prevRun' = lastRun
    /\ lastRun' = "none"
    /\ rm' = NoRepository
    /\ net' = {}
    /\ UNCHANGED locals
    /\ \E list_ok \in BOOLEAN :
        /\ root = "no_eups" => ~list_ok
        /\ Record(Entry("list", None, None, None,
                        IF list_ok THEN "ok" ELSE "cmd_failed"))
        /\ sm_tracker' = IF list_ok
                         THEN refresh_products(ListRaw(disk, setupEnv))
                         ELSE EmptyTracker
        /\ pc' = IF list_ok THEN "repo" ELSE "crashed"
    /\ UNCHANGED <<server, disk, globalTags, environ>>

\* rm = RepositoryManager(pattern=VERSION_GLOB)
Main_RepositoryManager ==
    /\ pc = "repo"
    /\ \E page_ok \in BOOLEAN :
       \E down \in SUBSET {listing[i].stem : i \in 1..Len(listing)} :
        /\ ~page_ok => down = {}
        /\ net' = down
        /\ rm' = RepositoryManager(page_ok, listing, served, down)
    /\ pc' = IF rm'.raised = None THEN "product" ELSE "crashed"
    /\ prod' = 1
    /\ UNCHANGED <<server, disk, globalTags, environ, runs, sm_tracker,
                   server_tags, installed_tags, candidate_tags, remaining,
                   tag, todo, available_tags, current_tag, history,
                   lastRun, prevRun>>

\* Every server tag a candidate, installed or not.
CandidateTagsAll(from_server, installed) == from_server

\* candidate_tags = server_tags - installed_tags
CandidateTags(from_server, installed) == from_server \ installed

\* for product in PRODUCTS: the three sets
Main_Consider ==
    /\ pc = "product"
    /\ prod <= Len(products)
    /\ server_tags' = tags_for_product(rm.tracker, products[prod])
    /\ installed_tags' = tags_for_product(sm_tracker, products[prod])
    /\ candidate_tags' = CandidateTags(server_tags', installed_tags')
    /\ remaining' = candidate_tags'
    /\ pc' = "install"
    /\ UNCHANGED <<server, net, disk, globalTags, environ, runs, rm,
                   sm_tracker, prod, tag, todo, available_tags, current_tag,
                   history, lastRun, prevRun>>

\* What the two commands of distrib_install can do.
InstallRuns(dsk, body, product) ==
    {[install_ok |-> FALSE, stack |-> dsk, list_ok |-> TRUE]}
    \cup {[install_ok |-> TRUE, stack |-> s, list_ok |-> b] :
             s \in EupsInstalls(dsk, body, product), b \in BOOLEAN}

\* sm.distrib_install(product, tag=tag)
Main_Install ==
    /\ pc = "install"
    /\ remaining # {}
    /\ \E t \in remaining :
       \E run \in InstallRuns(disk, served[t].body, products[prod]) :
        LET r == distrib_install(sm_tracker, disk, setupEnv, run)
        IN  /\ tag' = t
            /\ remaining' = remaining \ {t}
            /\ sm_tracker' = r.tracker
            /\ disk' = r.disk
            /\ Record(Entry("distrib_install", products[prod], None, t,
                            r.result))
            /\ pc' = IF r.result = "ok" THEN "tags" ELSE "crashed"
    /\ UNCHANGED <<server, net, globalTags, environ, runs, rm, prod,
                   server_tags, installed_tags, candidate_tags, todo,
                   available_tags, current_tag, lastRun, prevRun>>

\* The tag is never declared.
DeclareFirstNever(global, t) == global

\* if tag not in sm.tags(): sm.add_global_tag(tag)
DeclareFirst(global, t) ==
    IF t \notin EupsTags(global) THEN add_global_tag(global, t) ELSE global

Main_Tags ==
    /\ pc = "tags"
    /\ \E tags_ok \in BOOLEAN :
        IF tags_ok
        THEN /\ globalTags' = DeclareFirst(globalTags, tag)
             /\ IF globalTags' # globalTags
                THEN Record(Entry("add_global_tag", None, None, tag, "ok"))
                ELSE Record(Entry("tags", None, None, None, "ok"))
             /\ todo' = products_for_tag(rm.tracker, tag)
             /\ pc' = IF todo' = {} THEN "install" ELSE "apply"
        ELSE /\ Record(Entry("tags", None, None, None, "cmd_failed"))
             /\ pc' = "crashed"
             /\ UNCHANGED <<globalTags, todo>>
    /\ UNCHANGED <<server, net, disk, environ, runs, rm, sm_tracker, prod,
                   server_tags, installed_tags, candidate_tags, remaining,
                   tag, available_tags, current_tag, lastRun, prevRun>>

\* The loop going on after a declare command that failed.
ApplyNext_GoOn(t, here, next) ==
    \E pv \in todo, exit_ok \in BOOLEAN :
        LET r == apply_tag(sm_tracker, disk, globalTags, pv[1], pv[2], t,
                           exit_ok)
        IN  /\ sm_tracker' = r.tracker
            /\ disk' = r.disk
            /\ Record(Entry("apply_tag", pv[1], pv[2], t, r.result))
            /\ todo' = todo \ {pv}
            /\ pc' = IF todo' = {} THEN next ELSE here

\* One call sm.apply_tag(sub_product, version, t) of a loop over todo,
\* which goes on at pc value next once the loop is through.
ApplyNext(t, here, next) ==
    \E pv \in todo, exit_ok \in BOOLEAN :
        LET r == apply_tag(sm_tracker, disk, globalTags, pv[1], pv[2], t,
                           exit_ok)
        IN  /\ sm_tracker' = r.tracker
            /\ disk' = r.disk
            /\ Record(Entry("apply_tag", pv[1], pv[2], t, r.result))
            /\ todo' = todo \ {pv}
            /\ pc' = IF r.result = "cmd_failed" THEN "crashed"
                     ELSE IF todo' = {} THEN next ELSE here

\* for sub_product, version in rm.products_for_tag(tag): sm.apply_tag(...)
Main_ApplyTag ==
    /\ pc = "apply"
    /\ ApplyNext(tag, "apply", "install")
    /\ UNCHANGED <<server, net, globalTags, environ, runs, rm, prod,
                   server_tags, installed_tags, candidate_tags, remaining,
                   tag, available_tags, current_tag, lastRun, prevRun>>

\* min in place of max.
LatestTagsEarliest(available, dates) ==
    {t \in available : \A u \in available : dates[t] <= dates[u]}

\* max(available_tags, key=lambda tag: rm.tag_dates[tag]): the iteration
\* order of a set decides between tags of the same date.
LatestTags(available, dates) ==
    {t \in available : \A u \in available : dates[u] <= dates[t]}

\* available_tags = ...; if available_tags: current_tag = max(...)
Main_SelectCurrent ==
    /\ pc = "install"
    /\ remaining = {}
    /\ available_tags' =
          server_tags \cap tags_for_product(sm_tracker, products[prod])
    /\ IF available_tags' = {}
       THEN /\ prod' = prod + 1
            /\ pc' = "product"
            /\ UNCHANGED <<current_tag, todo, chosen>>
       ELSE /\ current_tag' \in LatestTags(available_tags', rm.tag_dates)
            /\ todo' = products_for_tag(rm.tracker, current_tag')
            /\ pc' = IF todo' = {} THEN "product" ELSE "current"
            /\ prod' = IF todo' = {} THEN prod + 1 ELSE prod
            /\ chosen' = [i \in DOMAIN chosen \cup {prod} |->
                            IF i = prod
                            THEN [tag |-> current_tag', among |-> available_tags']
                            ELSE chosen[i]]
    /\ UNCHANGED <<server, net, disk, globalTags, environ, runs, rm,
                   sm_tracker, server_tags, installed_tags, candidate_tags,
                   remaining, tag, calls, last, lastRun, prevRun>>

\* for sub_product, version in rm.products_for_tag(current_tag):
\*     sm.apply_tag(sub_product, version, "current")
Main_ApplyCurrent ==
    /\ pc = "current"
    /\ ApplyNext("current", "current", "product")
    /\ prod' = IF pc' = "product" THEN prod + 1 ELSE prod
    /\ UNCHANGED <<server, net, globalTags, environ, runs, rm,
                   server_tags, installed_tags, candidate_tags, remaining,
                   tag, available_tags, current_tag, lastRun, prevRun>>

\* Whether the stack on disk carries, for every configured product, each
\* of the tags the server view has for that product.
Synced ==
    \A i \in 1..Len(products) :
        \A f \in rm.tracker.tags :
            f[1] = products[i] =>
                \E g \in disk.tags : g[1] = products[i] /\ g[3] = f[3]

\* The loop over PRODUCTS is through: shutil.rmtree(userdata), exit.
Main_Exit ==
    /\ pc = "product"
    /\ prod > Len(products)
    /\ pc' = "done"
    /\ lastRun' = IF Synced THEN "synced" ELSE "unsynced"
    /\ UNCHANGED <<server, net, disk, globalTags, environ, runs, rm,
                   sm_tracker, locals, history, prevRun>>

\* The process is gone: nothing of it is left but the stack on disk.
Main_Return ==
    /\ pc \in {"done", "crashed"}
    /\ pc' = "idle"
    /\ rm' = NoRepository
    /\ net' = {}
    /\ sm_tracker' = EmptyTracker
    /\ prod' = 0
    /\ server_tags' = {} /\ installed_tags' = {} /\ candidate_tags' = {}
    /\ remaining' = {} /\ tag' = None /\ todo' = {}
    /\ available_tags' = {} /\ current_tag' = None
    /\ calls' = EmptyBag
    /\ last' = NoCall
    /\ chosen' = << >>
    /\ prevRun' = "none"
    /\ UNCHANGED <<server, disk, globalTags, environ, runs, lastRun>>

Next ==
    \/ Publish
    \/ Main_create_stack
    \/ Main_StackManager
    \/ Main_RepositoryManager
    \/ Main_Consider
    \/ Main_Install
    \/ Main_Tags
    \/ Main_ApplyTag
    \/ Main_SelectCurrent
    \/ Main_ApplyCurrent
    \/ Main_Exit
    \/ Main_Return

Spec == Init /\ [][Next]_vars

\* The load of the server's manifests alone.
NextLoad == Main_RepositoryManager

SpecLoad == InitLoad /\ [][NextLoad]_vars

\* ------------------------------------ a configuration of two products
\* A manifest as the server publishes it: the header, a row of p, a row
\* of q (None: no such row).
Published(stem, date, vp, vq) ==
    [last_modified |-> date,
     body |-> <<HeaderOf(stem)>>
              \o (IF vp = None THEN << >> ELSE <<Row("p", vp)>>)
              \o (IF vq = None THEN << >> ELSE <<Row("q", vq)>>)]

\* main() with PRODUCTS naming two top-level products, on a stack that
\* has EUPS and nothing installed, the server having published both tags.
InitProducts ==
    /\ listing = <<Anchor("w_10", ".list"), Anchor("w_12", ".list")>>
    /\ \E d1 \in Dates, d2 \in Dates :
       \E vp1 \in Versions \cup {None}, vq1 \in Versions \cup {None} :
       \E vp2 \in Versions \cup {None}, vq2 \in Versions \cup {None} :
          /\ vp1 # None \/ vq1 # None
          /\ vp2 # None \/ vq2 # None
          /\ served = [s \in Stems |->
                         IF s = "w_10" THEN Published(s, d1, vp1, vq1)
                         ELSE IF s = "w_12" THEN Published(s, d2, vp2, vq2)
                         ELSE Unpublished]
    /\ net = {}
    /\ disk = EmptyTracker
    /\ globalTags = {}
    /\ setupEnv = {}
    /\ products = TwoProducts
    /\ root = "ready"
    /\ pc = "idle"
    /\ runs = 0
    /\ rm = NoRepository
    /\ sm_tracker = EmptyTracker
    /\ InitLocals
    /\ calls = EmptyBag
    /\ last = NoCall
    /\ chosen = << >>
    /\ lastRun = "none"
    /\ prevRun = "none"

NextProducts ==
    \/ Main_StackManager
    \/ Main_RepositoryManager
    \/ Main_Consider
    \/ Main_Install
    \/ Main_Tags
    \/ Main_ApplyTag
    \/ Main_SelectCurrent
    \/ Main_ApplyCurrent
    \/ Main_Exit
    \/ Main_Return

SpecProducts == InitProducts /\ [][NextProducts]_vars

\* ------------------------------------------- a ProductTracker on its own
\* The tags insert() is called with: none, the empty string, tag names.
InsertTags == {None, "", "w_10", "current"}

\* A ProductTracker just constructed (held in sm_tracker).
InitTracker ==
    /\ listing = << >>
    /\ served = [s \in Stems |-> Unpublished]
    /\ net = {}
    /\ disk = EmptyTracker
    /\ globalTags = {}
    /\ setupEnv = {}
    /\ products = PRODUCTS
    /\ root = "ready"
    /\ pc = "tracker"
    /\ runs = 0
    /\ rm = NoRepository
    /\ sm_tracker = EmptyTracker
    /\ InitLocals
    /\ calls = EmptyBag
    /\ last = NoCall
    /\ chosen = << >>
    /\ lastRun = "none"
    /\ prevRun = "none"

\* tracker.insert(product, version, tag)
Tracker_insert ==
    /\ pc = "tracker"
    /\ BagCardinality(calls) < MaxCalls
    /\ \E product \in ProductNames, version \in Versions, t \in InsertTags :
        /\ sm_tracker' = insert(sm_tracker, product, version, t)
        /\ Record(Entry("insert", product, version, t, "ok"))
    /\ UNCHANGED <<server, net, disk, globalTags, environ, pc, runs, rm,
                   locals, lastRun, prevRun>>

\* tracker.current(product_name): the result is what was returned, or
\* the exception raised.
Tracker_current ==
    /\ pc = "tracker"
    /\ BagCardinality(calls) < MaxCalls
    /\ \E product \in ProductNames :
       \E outcome \in current(sm_tracker, product) :
          Record(Entry("current", product, None, None, outcome))
    /\ UNCHANGED <<server, net, disk, globalTags, environ, pc, runs, rm,
                   sm_tracker, locals, lastRun, prevRun>>

NextTracker == Tracker_insert \/ Tracker_current

SpecTracker == InitTracker /\ [][NextTracker]_vars

\* ------------------------------------------- _refresh_products on its own
\* Tag names the versions of a stack carry; "set" is a name like any
\* other.
ListedTags == {"current", "w_10", "set"}

\* A StackManager about to read "list --raw" of any stack of at most
\* MaxListed versions, any of them set up in the calling environment.
InitRefresh ==
    /\ listing = << >>
    /\ served = [s \in Stems |-> Unpublished]
    /\ net = {}
    /\ \E vs \in SUBSET (ProductNames \X Versions) :
          /\ Cardinality(vs) <= MaxListed
          /\ \E ts \in SUBSET {<<pv[1], pv[2], t>> : pv \in vs, t \in ListedTags} :
                disk = [vers |-> vs, tags |-> ts]
          /\ setupEnv \in SUBSET vs
    /\ products = PRODUCTS
    /\ root = "ready"
    /\ globalTags = {}
    /\ pc = "refresh"
    /\ runs = 0
    /\ rm = NoRepository
    /\ sm_tracker = EmptyTracker
    /\ InitLocals
    /\ calls = EmptyBag
    /\ last = NoCall
    /\ chosen = << >>
    /\ lastRun = "none"
    /\ prevRun = "none"

\* self._refresh_products(), the list command exiting zero.
Refresh_products ==
    /\ pc = "refresh"
    /\ sm_tracker' = refresh_products(ListRaw(disk, setupEnv))
    /\ Record(Entry("list", None, None, None, "ok"))
    /\ pc' = "refreshed"
    /\ UNCHANGED <<server, net, disk, globalTags, environ, runs, rm,
                   locals, lastRun, prevRun>>

NextRefresh == Refresh_products

SpecRefresh == InitRefresh /\ [][NextRefresh]_vars

\* ================================================================ claims
\* ------------------------------------------------- the load (SpecLoad)
\* The anchors of the page the load fetches a manifest for.
Fetched == {i \in 1..Len(listing) :
              listing[i].suffix = ".list" /\ GlobMatches(listing[i].stem)}

\* The constructor has returned or raised.
LoadOver == pc # "repo"

\* The tags page was fetched (the load did not raise before any anchor).
PageFetched == LoadOver /\ ~(rm.raised # None /\ rm.at = 0)

\* The load got as far as anchor i.
Handled(i) == LoadOver /\ (rm.raised = None \/ i <= rm.at)

Manifest(i) == served[listing[i].stem]

IsComment(line) == line # << >> /\ line[1] \in CommentFields
IsDataRow(line, stem) ==
    ~IsHeader(line, stem) /\ ~IsComment(line) /\ Len(line) = 3
IsMalformedRow(line, stem) ==
    ~IsHeader(line, stem) /\ ~IsComment(line) /\ line # << >> /\ Len(line) # 3

Delivered(i) ==
    listing[i].stem \notin net /\ Manifest(i).last_modified # NoDate

\* Header, comments and data rows, nothing else.
WellFormed(i) ==
    \A k \in 1..Len(Manifest(i).body) :
        LET line == Manifest(i).body[k]
        IN  \/ IsHeader(line, listing[i].stem)
            \/ IsComment(line)
            \/ IsDataRow(line, listing[i].stem)

HasMalformedRow(i) ==
    \E k \in 1..Len(Manifest(i).body) :
        IsMalformedRow(Manifest(i).body[k], listing[i].stem)

\* The facts of the data rows of manifest i, in the order of the rows.
RECURSIVE RowFacts(_, _)
RowFacts(body, stem) ==
    IF body = << >> THEN << >>
    ELSE IF IsDataRow(Head(body), stem)
         THEN <<<<Head(body)[1], Head(body)[3], stem>>>>
              \o RowFacts(Tail(body), stem)
         ELSE RowFacts(Tail(body), stem)

RECURSIVE InsertsFor(_, _)
InsertsFor(ins, stem) ==
    IF ins = << >> THEN << >>
    ELSE IF Head(ins)[3] = stem
         THEN <<Head(ins)>> \o InsertsFor(Tail(ins), stem)
         ELSE InsertsFor(Tail(ins), stem)

\* The view holds manifest i in full.
Present(i) ==
    /\ listing[i].stem \in DOMAIN rm.tag_dates
    /\ rm.tag_dates[listing[i].stem] = Manifest(i).last_modified
    /\ products_for_tag(rm.tracker, listing[i].stem)
         = RowPairs(Manifest(i).body)

\* Manifest i cannot be fetched or parsed.
Fails(i) ==
    \/ ~Delivered(i)
    \/ \E k \in 1..Len(Manifest(i).body) :
          LET line == Manifest(i).body[k]
          IN  ~IsHeader(line, listing[i].stem) /\ ~IsComment(line)
              /\ Len(line) # 3

\* Manifest i is delivered and well formed, with a line at least.
Good(i) == Delivered(i) /\ WellFormed(i) /\ Manifest(i).body # << >>

\* C5: when (the tags page fetched) the manifest of one matching tag
\* cannot be fetched or parsed, the load still completes and every other
\* matching tag whose manifest is delivered and well formed is in the view
\* in full.
C5_PerTagIsolation ==
    (PageFetched /\ (\E i \in Fetched : Fails(i))
       /\ \A j \in Fetched : Fails(j) \/ Good(j))
    => /\ rm.raised = None
       /\ \A j \in Fetched : Good(j) => Present(j)

\* C6: a manifest with a data row of other than three fields is dropped as
\* a whole: the load completes, the tag has no date and no pair of the
\* tracker carries it.
C6_MalformedTagDropped ==
    \A i \in Fetched :
        (PageFetched /\ Delivered(i) /\ HasMalformedRow(i)
           /\ \A j \in Fetched : j # i => Good(j))
        => /\ rm.raised = None
           /\ listing[i].stem \notin DOMAIN rm.tag_dates
           /\ products_for_tag(rm.tracker, listing[i].stem) = {}

\* What C7 says of manifest i once the load has come to it.
ParsedAsRows(i) ==
    /\ ~(rm.raised # None /\ rm.at = i)
    /\ InsertsFor(rm.inserts, listing[i].stem)
         = RowFacts(Manifest(i).body, listing[i].stem)
    /\ products_for_tag(rm.tracker, listing[i].stem)
         = RowPairs(Manifest(i).body)

\* C7: every well-formed manifest of a tag T (optional header, any number
\* of comment lines, N data rows) that is delivered yields exactly the N
\* facts of its data rows, products_for_tag(T) is the set of their pairs,
\* and header and comment lines contribute no insertion.  The manifest
\* without any line is well formed with N = 0.
C7_EveryWellFormedManifest ==
    \A i \in Fetched :
        (Handled(i) /\ Delivered(i) /\ WellFormed(i)) => ParsedAsRows(i)

\* -------------------------------------------- reconciliation (Spec)
Called == BagToSet(calls)

\* A call that changes the stack: an install, a global declaration, or an
\* apply_tag that ran its declare command.
Mutating(e) ==
    \/ e.op \in {"distrib_install", "add_global_tag"}
    \/ e.op = "apply_tag" /\ e.result # "skipped"

\* C1: a run that follows a completed run, the server unchanged in between,
\* issues no install and no declare call.
C1_SecondRunIssuesNothing ==
    prevRun # "none" => \A e \in Called : ~Mutating(e)

\* C1 as amended: when the completed run left every server tag of every
\* configured product attached to that product in the stack, the next run
\* (server unchanged) issues no install, no global declaration and no
\* declare of a server tag; all it issues again is "declare -t current".
C1_SecondRunOnlyRedeclaresCurrent ==
    prevRun = "synced" =>
        \A e \in Called :
            Mutating(e) => (e.op = "apply_tag" /\ e.tag = "current")

\* A second run over an unchanged server is through and has declared
\* "current" again.
C1_Witness ==
    /\ prevRun = "synced"
    /\ pc = "done"
    /\ \E e \in Called :
          e.op = "apply_tag" /\ e.tag = "current" /\ e.result = "ok"

\* C2: a candidate tag is a known tag name whenever a command uses it:
\* "distrib install -t T" and "declare -t T" come after its declaration.
C2_DeclaredBeforeEveryUse ==
    \A e \in Called :
        (e.op \in {"distrib_install", "apply_tag"} /\ e.result # "skipped"
           /\ e.tag \in MatchingTags)
        => e.known

\* C2 as amended: the declaration of an unknown candidate tag comes after
\* the "distrib install -t T" of its pass and before every "declare -t T"
\* of apply_tag.
C2_DeclaredBeforeEveryDeclare ==
    /\ \A e \in Called :
          (e.op = "apply_tag" /\ e.result # "skipped") => e.known
    /\ \A e \in Called :
          e.op = "add_global_tag" =>
              /\ ~e.known
              /\ \E i \in Called :
                    /\ i.op = "distrib_install" /\ i.tag = e.tag
                    /\ i.pass = e.pass /\ i.result = "ok" /\ ~i.known

\* A tag unknown at its install has been declared and then applied.
C2_Witness ==
    \E e \in Called, d \in Called :
        /\ d.op = "add_global_tag"
        /\ e.op = "apply_tag" /\ e.tag = d.tag /\ e.result = "ok"

\* C3: after every successful mutating operation the tracker is what a
\* fresh _refresh_products() gives for the stack on disk.
C3_TrackerIsAFreshRefresh ==
    (last.op \in {"distrib_install", "apply_tag", "add_global_tag"}
       /\ last.result = "ok")
    => sm_tracker = refresh_products(ListRaw(disk, setupEnv))

\* C4: when the install command of distrib_install or the declare command
\* of apply_tag exits non-zero, the call raises and the tracker is as it
\* was before the call.
C4_FailedMutationKeepsView ==
    [][(/\ pc \in {"install", "apply", "current"}
        /\ last'.op \in {"distrib_install", "apply_tag"}
        /\ last'.result = "cmd_failed")
       => (pc' = "crashed" /\ sm_tracker' = sm_tracker)]_vars

\* A declare command has failed on a tracker that holds something.
C4_Witness ==
    /\ pc = "crashed"
    /\ last.op = "apply_tag" /\ last.result = "cmd_failed"
    /\ sm_tracker.tags # {}

\* The tags the server view has for a product.
ServerTagsOf(product) ==
    {f[3] : f \in {g \in rm.tracker.tags : g[1] = product}}

\* The pass a product's latest sets belong to.
PassOf == IF pc \in {"product", "done"} THEN prod - 1 ELSE prod

\* The pairs apply_tag was called on with "current" in pass i.
CurrentCalls(i) ==
    {<<e.product, e.version>> :
        e \in {c \in Called :
                 c.op = "apply_tag" /\ c.tag = "current" /\ c.pass = i}}

\* C8: the tag chosen as current is one of available_tags with a date not
\* before that of any other; "current" is applied to the pairs of the
\* manifest of that tag, all of them once the pass is through, and to no
\* other pair.
C8_CurrentIsLatestAvailable ==
    \A i \in DOMAIN chosen :
        /\ chosen[i].tag \in chosen[i].among
        /\ chosen[i].among \subseteq ServerTagsOf(products[i])
        /\ \A u \in chosen[i].among :
              rm.tag_dates[u] <= rm.tag_dates[chosen[i].tag]
        /\ CurrentCalls(i) \subseteq
              {<<f[1], f[2]>> :
                  f \in {g \in rm.tracker.tags : g[3] = chosen[i].tag}}
        /\ (pc # "crashed" /\ prod > i) =>
              CurrentCalls(i) =
              {<<f[1], f[2]>> :
                  f \in {g \in rm.tracker.tags : g[3] = chosen[i].tag}}

\* Of two available tags of different dates the later one was chosen and
\* applied to both pairs of its manifest.
C8_Witness ==
    \E i \in DOMAIN chosen :
        /\ prod > i
        /\ \E u \in chosen[i].among :
              rm.tag_dates[u] < rm.tag_dates[chosen[i].tag]
        /\ Cardinality(CurrentCalls(i)) = 2

\* The install calls of the pass at hand.
PassInstalls ==
    {e \in Called : e.op = "distrib_install" /\ e.pass = PassOf}

\* C9: in the pass of a product distrib_install is called once for each
\* tag of (server tags minus the local tags read when the pass began), all
\* of them once the install loop is through, and for no other tag.
C9_InstallsAreTheDifference ==
    PassOf >= 1 =>
        /\ \A e \in PassInstalls :
              /\ e.product = products[PassOf]
              /\ e.tag \in ServerTagsOf(products[PassOf]) \ installed_tags
              /\ CopiesIn(e, calls) = 1
              /\ \A o \in PassInstalls : o.tag = e.tag => o = e
        /\ (pc \in {"current", "product", "done"}) =>
              {e.tag : e \in PassInstalls}
                 = ServerTagsOf(products[PassOf]) \ installed_tags

\* A pass is through that found one server tag installed and one not.
C9_Witness ==
    /\ pc \in {"current", "product", "done"}
    /\ PassOf >= 1
    /\ installed_tags # {}
    /\ PassInstalls # {}
    /\ ServerTagsOf(products[PassOf]) \cap installed_tags # {}

\* C10: apply_tag on a version the tracker does not have runs no command,
\* leaves tracker and stack as they are and does not raise.
C10_ApplyTagOfUnknownVersion ==
    [][\A pv \in todo :
         (/\ pc \in {"apply", "current"}
          /\ pv \notin todo'
          /\ pv \notin sm_tracker.vers)
         => /\ sm_tracker' = sm_tracker
            /\ disk' = disk
            /\ globalTags' = globalTags
            /\ pc' # "crashed"
            /\ last'.result = "skipped"]_vars

\* apply_tag has been called for a version, not in the tracker, of a
\* product that is.
C10_Witness ==
    /\ last.op = "apply_tag" /\ last.result = "skipped"
    /\ KnownProduct(sm_tracker, last.product)
    /\ <<last.product, last.version>> \notin sm_tracker.vers

\* ----------------------------------------- the tracker (SpecTracker)
\* The insert() calls made so far on the tracker.
Inserted == {e \in Called : e.op = "insert"}

\* The tag names given to insert() for a product, and for one version.
TagsInsertedFor(product) ==
    {e.tag : e \in {i \in Inserted : i.product = product /\ Truthy(i.tag)}}
TagsInsertedOn(product, version) ==
    {e.tag : e \in {i \in Inserted : /\ i.product = product
                                    /\ i.version = version
                                    /\ Truthy(i.tag)}}

\* C11: whatever the order of the insert() calls made, tags_for_product(p)
\* is the union of the tag names inserted for p, has_version(p, v) is true
\* of every version inserted, and a version carries every tag name ever
\* inserted on it (a later insert, with or without a tag, removes none).
\* An empty string given for the tag is no tag name, like None.
C11_InsertOrderIndependent ==
    pc = "tracker" =>
        /\ \A p \in ProductNames :
              tags_for_product(sm_tracker, p) = TagsInsertedFor(p)
        /\ \A e \in Inserted : has_version(sm_tracker, e.product, e.version)
        /\ \A p \in ProductNames, v \in Versions :
              {f[3] : f \in {g \in sm_tracker.tags : g[1] = p /\ g[2] = v}}
                 = TagsInsertedOn(p, v)

\* A version inserted with a tag has been inserted again without one.
C11_Witness ==
    /\ pc = "tracker"
    /\ last.op = "insert" /\ last.tag = None
    /\ \E e \in Inserted :
          /\ e.product = last.product /\ e.version = last.version
          /\ Truthy(e.tag)
    /\ \E e \in Inserted : e.product # last.product

\* C12: for a product name never inserted tags_for_product is the empty
\* set and has_version is false; for a tag name never inserted
\* products_for_tag is empty (None is no tag name: products_for_tag(None)
\* lists every version).
C12_LookupsAreTotal ==
    pc = "tracker" =>
        /\ \A p \in ProductNames :
              (\A e \in Inserted : e.product # p) =>
                 /\ tags_for_product(sm_tracker, p) = {}
                 /\ \A v \in Versions : ~has_version(sm_tracker, p, v)
        /\ \A t \in (InsertTags \ {None}) \cup MatchingTags :
              (\A e \in Inserted : e.tag # t) =>
                 products_for_tag(sm_tracker, t) = {}

\* A tracker that holds a tagged version of one product is asked for a
\* product and a tag it has never seen.
C12_Witness ==
    /\ pc = "tracker"
    /\ \E e \in Inserted : Truthy(e.tag)
    /\ \E p \in ProductNames : \A e \in Inserted : e.product # p
    /\ \E t \in MatchingTags : \A e \in Inserted : e.tag # t

\* C13: current(p) returns a version of p tagged "current" or None, and
\* never raises: None for an unknown product and for a known product
\* without a version tagged "current".
C13_CurrentIsVersionOrNone ==
    pc = "tracker" =>
        \A p \in ProductNames :
            /\ current(sm_tracker, p) \subseteq Versions \cup {None}
            /\ (\A v \in Versions : <<p, v, "current">> \notin sm_tracker.tags)
                  => current(sm_tracker, p) = {None}

\* ------------------------------------- the local view (SpecRefresh)
\* C14: after _refresh_products() the tracker is the list output less the
\* tag "setup": every listed (product, version) is a version of the
\* tracker, also when the line has no tag or "setup" alone, the tags of a
\* version are those of its line other than "setup", and the tracker holds
\* nothing else.
C14_ViewIsListMinusSetup ==
    pc = "refreshed" =>
        /\ sm_tracker.vers =
              {<<l.product, l.version>> : l \in ListRaw(disk, setupEnv)}
        /\ \A l \in ListRaw(disk, setupEnv) :
              {f[3] : f \in {g \in sm_tracker.tags :
                               g[1] = l.product /\ g[2] = l.version}}
                 = l.tags \ {"setup"}

\* --------------------------------------- tag propagation (Spec)
\* The candidate tag the install loop has just been through.
Processed == pc = "install" /\ tag \in candidate_tags \ remaining

\* The pairs a declare command was run for with tag t in pass i.
Declared(t, i) ==
    {<<e.product, e.version>> :
        e \in {c \in Called : /\ c.op = "apply_tag" /\ c.tag = t
                              /\ c.pass = i /\ c.result # "skipped"}}

\* C15: once a candidate tag T is processed without a failure, the pairs
\* of T's manifest that are installed in the local stack carry T in the
\* tracker, and "declare -t T" was run for them and for no other pair.
C15_TagOnEveryLocalPair ==
    Processed =>
        LET pairs == RowPairs(served[tag].body)
            here == {pv \in pairs : pv \in disk.vers}
        IN  /\ \A pv \in here : <<pv[1], pv[2], tag>> \in sm_tracker.tags
            /\ Declared(tag, prod) = here

\* ------------------------------------------- command failures (Spec)
\* A call in which a package-manager command exited non-zero.
Failed(e) == e.result \in {"cmd_failed", "list_failed"}

\* C16: a command that exits non-zero ends the run: the call that ran it
\* is the last call of the run, the exception leaves main(), and nothing
\* is installed, declared or changed in the stack after it, for the other
\* tags of the product or for a later product.
C16_FailureEndsTheRun ==
    /\ [](\A e \in Called :
            Failed(e) => (pc = "crashed" /\ last = e /\ CopiesIn(e, calls) = 1))
    /\ [][pc = "crashed" =>
            (/\ pc' = "idle" /\ calls' = EmptyBag
             /\ disk' = disk /\ globalTags' = globalTags)]_vars

\* An install has failed with a candidate tag left for the product.
C16_Witness ==
    /\ pc = "crashed"
    /\ last.op = "distrib_install" /\ Failed(last)
    /\ remaining # {}

\* ------------------------------------------------- "current" (Spec)
\* C17: every product of the local tracker has at most one version tagged
\* "current", whatever sequence of reconciliation passes and apply_tag
\* calls has run on a stack that started so.
C17_OneCurrentInTracker ==
    \A p \in ProductNames :
        Cardinality({v \in Versions :
                       <<p, v, "current">> \in sm_tracker.tags}) <= 1

\* The declare commands that ran for "current" on a sub-product.
CurrentDeclares(sub) ==
    {e \in Called : /\ e.op = "apply_tag" /\ e.tag = "current"
                    /\ e.product = sub /\ e.result = "ok"}

\* The last of them: those of the latest pass (a pass declares one
\* version of a sub-product).
LastCurrentDeclares(sub) ==
    {e \in CurrentDeclares(sub) :
        \A f \in CurrentDeclares(sub) : f.pass <= e.pass}

\* C18: at the end of a run over two top-level products, for every
\* top-level product P with current tag T_P and every pair (S, v) of T_P's manifest that is present
\* locally, the last "declare -t current S" names v, unless it was made
\* for the current tag of a later product that is not older than T_P: no
\* later product points S back to the version of an older tag.
C18_CurrentNotRepointedToOlder ==
    pc = "done" =>
        \A i \in DOMAIN chosen :
            \A pv \in RowPairs(served[chosen[i].tag].body) :
                pv \in sm_tracker.vers =>
                    \A e \in LastCurrentDeclares(pv[1]) :
                        \/ e.version = pv[2]
                        \/ rm.tag_dates[chosen[e.pass].tag]
                              >= rm.tag_dates[chosen[i].tag]

=============================================================================
